---- MODULE Spec2Model ----
(***************************************************************************)
(* A model of munis.py, a dashboard over a municipal-bond database.        *)
(*                                                                         *)
(* The module holds five state machines over one set of variables:         *)
(*   SpecQuery  the filter -> query text/parameters -> result rows layer   *)
(*              of the three views, over a small relational database;      *)
(*   SpecPass   one run of the script: the three views rendered in order,  *)
(*              every conn.query nondeterministically returning rows,      *)
(*              returning nothing, or raising;                             *)
(*   SpecCache  the TTL result cache behind conn.query(..., ttl = ...);    *)
(*   SpecRank   rating_sort, the rank of a rating grade;                   *)
(*   SpecTable  the two pandas pipelines of Ratings & Risk over a rating   *)
(*              table ("Latest Rating Updates", "Highest-Risk Bonds").     *)
(* A query text is a sequence of tokens (one per SQL line or predicate);   *)
(* a list of selected values is the set of its members, a multiselect      *)
(* returning distinct options.                                             *)
(***************************************************************************)
EXTENDS Integers, Sequences, FiniteSets, TLC

VARIABLES
  db,        \* the database: bond id -> its row and its associations
  view,      \* the view whose query was assembled last ("none" at first)
  sel,       \* that view's filter selection (or selected cusip)
  sql,       \* the query text handed to conn.query
  params,    \* the params argument handed to conn.query
  result,    \* the rows the query returned
  pc,        \* SpecPass: the statement the script run is at
  outcome,   \* SpecPass: what each conn.query call of the run did
  shown,     \* SpecPass: per view, the output elements produced
  cache,     \* SpecCache: key -> cached entry
  now,       \* SpecCache: the clock, in minutes
  last,      \* SpecCache: what the last lookup did
  grades,    \* SpecRank: the pair of grades ranked last
  ranks,     \* SpecRank: their rating_sort values
  df,        \* SpecTable: the rating table the main query returned
  recent_updates, \* SpecTable: the "Latest Rating Updates" table
  risky      \* SpecTable: the "Highest-Risk Bonds" table

queryVars == <<db, view, sel, sql, params, result>>
passVars  == <<pc, outcome, shown>>
cacheVars == <<cache, now, last>>
rankVars  == <<grades, ranks>>
tableVars == <<df, recent_updates, risky>>
vars == <<db, view, sel, sql, params, result, pc, outcome, shown,
          cache, now, last, grades, ranks, df, recent_updates, risky>>

\* Python's None, SQL's NULL, pandas' NaN/NaT.
None == "None"

-----------------------------------------------------------------------------
(* Bounds *)

NumBonds == 2

\* The clock of SpecCache stops here (minutes).
MaxClock == 11

\* The longest rating table of SpecTable.
MaxRows == 3

-----------------------------------------------------------------------------
(* The database *)

Bonds == 1..NumBonds

\* issuers.state; one option carries quote characters and an SQL fragment,
\* one is the NULL state of an issuer.
States == {"CA", "NY' OR '1'='1", None}
\* bonds.type
Types == {"GO", "REV"}
\* bonds_purposes.category
Purposes == {"edu", "water; DROP TABLE bonds;--"}
\* credit_ratings.agency, credit_ratings.outlook
Agencies == {"S&P", "Moody's"}
Outlooks == {"stable", "negative"}

\* bonds.cusip, a string as the sequence of its characters.
CusipOf(b) == <<"C", "U", "0" , "0">> \o [i \in 1..b |-> "'"]

\* A bond with what the joins of the three views attach to it: at most one
\* issuer (bonds_issuers, issuers), at most one purpose (bonds_purposes), at
\* most one credit rating (bonds_credit_ratings, credit_ratings). The other
\* values of States, Purposes, Agencies and Outlooks are those of issuers,
\* purposes and ratings that no bond of the database is joined to.
BondRows ==
  [type : Types, state : {None, "CA"}, purpose : {None, "edu"},
   agency : {None, "S&P"}]

OutlookOf(agency) == IF agency = None THEN None ELSE "stable"

InitQuery ==
  /\ db \in [Bonds -> BondRows]
  /\ view = "none"
  /\ sel = [kind |-> "none"]
  /\ sql = <<>>
  /\ params = [given |-> FALSE]
  /\ result = {}
  \* the other machines stand still
  /\ pc = "idle" /\ outcome = <<>> /\ shown = <<>>
  /\ cache = <<>> /\ now = 0 /\ last = <<>>
  /\ grades = <<>> /\ ranks = <<>>
  /\ df = <<>> /\ recent_updates = <<>> /\ risky = <<>>

-----------------------------------------------------------------------------
(* Filter predicates and query assembly *)

\* " AND ".join(where): the predicates with the separator between them.
RECURSIVE Join(_, _)
Join(where, sep) ==
  IF Len(where) <= 1 THEN where
  ELSE <<Head(where), sep>> \o Join(Tail(where), sep)

\* Mutant of WhereClause: "WHERE " + " AND ".join(where), the test for an
\* empty list forgotten.
WhereClauseAlways(where) == <<"WHERE">> \o Join(where, "AND")

\* "WHERE " + " AND ".join(where) if where else ""
WhereClause(where) ==
  IF where # <<>> THEN <<"WHERE">> \o Join(where, "AND") ELSE <<>>

\* A dict as a function of its keys; {} is the function of no key.
EmptyDict == [k \in {} |-> {}]

\* d[k] = v
SetItem(d, k, v) == [x \in DOMAIN d \cup {k} |-> IF x = k THEN v ELSE d[x]]

\* params = params or None: an empty dict is passed as None.
ParamsArg(d) ==
  IF DOMAIN d = {} THEN [given |-> FALSE] ELSE [given |-> TRUE, binds |-> d]

\* Mutant of MarketWhere: the selected state formatted into the text instead
\* of bound.
MarketWhereInline(selected_states, selected_types, selected_purposes) ==
  (IF selected_states # {}
   THEN <<"i.state IN (">> \o
        (IF "CA" \in selected_states THEN <<"CA">> ELSE <<>>) \o
        (IF "NY' OR '1'='1" \in selected_states
         THEN <<"NY' OR '1'='1">> ELSE <<>>) \o <<")">>
   ELSE <<>>)
  \o (IF selected_types # {} THEN <<"b.type = ANY(:types)">> ELSE <<>>)
  \o (IF selected_purposes # {} THEN <<"bp.category = ANY(:purposes)">> ELSE <<>>)

\* render_market_overview: where and params after the three ifs.
MarketWhere(selected_states, selected_types, selected_purposes) ==
  (IF selected_states # {} THEN <<"i.state = ANY(:states)">> ELSE <<>>)
  \o (IF selected_types # {} THEN <<"b.type = ANY(:types)">> ELSE <<>>)
  \o (IF selected_purposes # {} THEN <<"bp.category = ANY(:purposes)">> ELSE <<>>)

MarketParams(selected_states, selected_types, selected_purposes) ==
  LET p1 == IF selected_states # {}
            THEN SetItem(EmptyDict, "states", selected_states) ELSE EmptyDict
      p2 == IF selected_types # {}
            THEN SetItem(p1, "types", selected_types) ELSE p1
  IN  IF selected_purposes # {}
      THEN SetItem(p2, "purposes", selected_purposes) ELSE p2

MarketSelect ==
  <<"SELECT b.coupon_rate, b.duration, b.maturity_date, b.issue_date, b.cusip, i.state, b.type, bp.category AS purpose, t.price, t.yield",
    "FROM bonds b",
    "LEFT JOIN bonds_issuers bi ON bi.bond_id = b.id",
    "LEFT JOIN issuers i ON bi.issuer_id = i.id",
    "LEFT JOIN bonds_purposes bp ON bp.id = b.purpose_id",
    "LEFT JOIN LATERAL (SELECT tr.price, tr.yield FROM trades tr JOIN bonds_trades bt ON bt.trade_id = tr.id WHERE bt.bond_id = b.id ORDER BY tr.date DESC LIMIT 1) t ON TRUE">>

MarketSql(where_clause) ==
  MarketSelect \o where_clause \o <<"ORDER BY maturity_date;">>

\* Mutant of RiskWhere: the ifs chained as if / elif / elif, so that only
\* the first selected dimension restricts the rows.
RiskWhereElif(selected_states, selected_agencies, selected_outlooks) ==
  IF selected_states # {} THEN <<"i.state = ANY(:states)">>
  ELSE IF selected_agencies # {} THEN <<"cr.agency = ANY(:agencies)">>
  ELSE IF selected_outlooks # {} THEN <<"cr.outlook = ANY(:outlooks)">>
  ELSE <<>>

\* render_ratings_risk: where and params after the three ifs.
RiskWhere(selected_states, selected_agencies, selected_outlooks) ==
  (IF selected_states # {} THEN <<"i.state = ANY(:states)">> ELSE <<>>)
  \o (IF selected_agencies # {} THEN <<"cr.agency = ANY(:agencies)">> ELSE <<>>)
  \o (IF selected_outlooks # {} THEN <<"cr.outlook = ANY(:outlooks)">> ELSE <<>>)

RiskParams(selected_states, selected_agencies, selected_outlooks) ==
  LET p1 == IF selected_states # {}
            THEN SetItem(EmptyDict, "states", selected_states) ELSE EmptyDict
      p2 == IF selected_agencies # {}
            THEN SetItem(p1, "agencies", selected_agencies) ELSE p1
  IN  IF selected_outlooks # {}
      THEN SetItem(p2, "outlooks", selected_outlooks) ELSE p2

RiskSelect ==
  <<"SELECT b.cusip, b.coupon_rate, b.duration, b.type, i.name AS issuer_name, i.state, cr.agency, cr.date AS rating_date, cr.rating, cr.outlook",
    "FROM credit_ratings cr",
    "JOIN bonds_credit_ratings bcr ON bcr.credit_id = cr.id",
    "JOIN bonds b ON b.id = bcr.bond_id",
    "LEFT JOIN bonds_issuers bi ON bi.bond_id = b.id",
    "LEFT JOIN issuers i ON i.id = bi.issuer_id">>

RiskSql(where_clause) ==
  RiskSelect \o where_clause \o <<"ORDER BY cr.date DESC;">>

\* render_bond_explorer: the bond metadata query, a constant text.
bond_sql ==
  <<"SELECT b.id AS bond_id, b.cusip, b.type, b.coupon_rate, b.issue_date, b.maturity_date, b.duration, b.tax_status, bp.category AS purpose_category, bp.description AS purpose_description, i.name AS issuer_name, i.state AS issuer_state",
    "FROM bonds b",
    "JOIN bonds_purposes bp ON b.purpose_id = bp.id",
    "LEFT JOIN bonds_issuers bi ON bi.bond_id = b.id",
    "LEFT JOIN issuers i ON bi.issuer_id = i.id",
    "WHERE",
    "b.cusip = :cusip",
    "LIMIT 1;">>

Whitespace == {" ", "\t", "\n"}

\* str.strip(): leading and trailing whitespace removed.
RECURSIVE LStrip(_)
LStrip(s) == IF s # <<>> /\ Head(s) \in Whitespace THEN LStrip(Tail(s)) ELSE s

RECURSIVE RStrip(_)
RStrip(s) ==
  IF s # <<>> /\ s[Len(s)] \in Whitespace
  THEN RStrip(SubSeq(s, 1, Len(s) - 1)) ELSE s

Strip(s) == RStrip(LStrip(s))

\* params = {"cusip": selected_cusip}, selected_cusip stripped before.
ExplorerParams(selected_cusip) ==
  SetItem(EmptyDict, "cusip", Strip(selected_cusip))

-----------------------------------------------------------------------------
(* Query execution: what the data store answers to the assembled text *)

\* The rows the FROM/JOIN lines of the Market Overview query produce: every
\* bond, the issuer's and the purpose's columns NULL where the LEFT JOIN
\* finds no match.
MarketJoin ==
  { [cusip |-> CusipOf(b), state |-> db[b].state, type |-> db[b].type,
     purpose |-> db[b].purpose] : b \in Bonds }

\* Ratings & Risk: one row per credit rating joined to its bond (inner
\* joins), the issuer's columns NULL where the LEFT JOIN finds no match.
RiskJoin ==
  { [cusip |-> CusipOf(b), type |-> db[b].type, state |-> db[b].state,
     agency |-> db[b].agency, outlook |-> OutlookOf(db[b].agency)] :
    b \in {x \in Bonds : db[x].agency # None} }

\* Bond Explorer: bonds inner-joined to their purpose, left-joined to their
\* issuer.
ExplorerJoin ==
  { [cusip |-> CusipOf(b), type |-> db[b].type,
     purpose_category |-> db[b].purpose, issuer_state |-> db[b].state] :
    b \in {x \in Bonds : db[x].purpose # None} }

\* The "<column> = ANY(:<param>)" predicates a query text can hold.
AnyPredicates ==
  {"i.state = ANY(:states)", "b.type = ANY(:types)",
   "bp.category = ANY(:purposes)", "cr.agency = ANY(:agencies)",
   "cr.outlook = ANY(:outlooks)"}

\* The result column a predicate reads.
PredColumn(tok) ==
  CASE tok = "i.state = ANY(:states)" -> "state"
    [] tok = "b.type = ANY(:types)" -> "type"
    [] tok = "bp.category = ANY(:purposes)" -> "purpose"
    [] tok = "cr.agency = ANY(:agencies)" -> "agency"
    [] tok = "cr.outlook = ANY(:outlooks)" -> "outlook"

\* The bound parameter a predicate reads.
PredParam(tok) ==
  CASE tok = "i.state = ANY(:states)" -> "states"
    [] tok = "b.type = ANY(:types)" -> "types"
    [] tok = "bp.category = ANY(:purposes)" -> "purposes"
    [] tok = "cr.agency = ANY(:agencies)" -> "agencies"
    [] tok = "cr.outlook = ANY(:outlooks)" -> "outlooks"

\* SQL's x = ANY(array): true only for a non-NULL x equal to a non-NULL
\* element; NULL (hence not true) for a NULL x.
EqAny(x, array) == x # None /\ x \in (array \ {None})

\* The rows of a join that pass the WHERE clause of the text: every
\* predicate of the text, under the bound parameters.
Execute(rows, text, p) ==
  LET conds == {k \in DOMAIN text : text[k] \in AnyPredicates}
  IN  { r \in rows : \A k \in conds :
          EqAny(r[PredColumn(text[k])], p.binds[PredParam(text[k])]) }

\* LIMIT 1
Limit1(rows) == IF rows = {} THEN {} ELSE {CHOOSE r \in rows : TRUE}

\* The bond metadata query: WHERE b.cusip = :cusip LIMIT 1.
ExecuteBond(rows, text, p) ==
  Limit1({ r \in rows : r.cusip = p.binds["cusip"] })

-----------------------------------------------------------------------------
(* SpecQuery: the views assemble and run their main query *)

\* render_market_overview, from the filter widgets to df.
MarketQuery ==
  /\ view = "none"
  /\ \E selected_states \in SUBSET States, selected_types \in SUBSET Types,
        selected_purposes \in SUBSET Purposes :
    LET where == MarketWhere(selected_states, selected_types, selected_purposes)
        p == MarketParams(selected_states, selected_types, selected_purposes)
        text == MarketSql(WhereClause(where))
    IN  /\ view' = "market"
        /\ sel' = [kind |-> "market", states |-> selected_states,
                   types |-> selected_types, purposes |-> selected_purposes]
        /\ sql' = text
        /\ params' = ParamsArg(p)
        /\ result' = Execute(MarketJoin, text, ParamsArg(p))
        /\ UNCHANGED <<db, passVars, cacheVars, rankVars, tableVars>>

\* render_ratings_risk, from the filter widgets to df.
RiskQuery ==
  /\ view = "none"
  /\ \E selected_states \in SUBSET States, selected_agencies \in SUBSET Agencies,
        selected_outlooks \in SUBSET Outlooks :
    LET where == RiskWhere(selected_states, selected_agencies, selected_outlooks)
        p == RiskParams(selected_states, selected_agencies, selected_outlooks)
        text == RiskSql(WhereClause(where))
    IN  /\ view' = "risk"
        /\ sel' = [kind |-> "risk", states |-> selected_states,
                   agencies |-> selected_agencies, outlooks |-> selected_outlooks]
        /\ sql' = text
        /\ params' = ParamsArg(p)
        /\ result' = Execute(RiskJoin, text, ParamsArg(p))
        /\ UNCHANGED <<db, passVars, cacheVars, rankVars, tableVars>>

\* render_bond_explorer, from the selectbox (its options the cusips of the
\* bonds table) to bond_df.
ExplorerQuery ==
  \E selected_cusip \in {CusipOf(b) : b \in Bonds} :
    /\ view = "none"
    /\ selected_cusip # <<>>
    /\ view' = "explorer"
    /\ sel' = [kind |-> "explorer", cusip |-> selected_cusip]
    /\ sql' = bond_sql
    /\ params' = ParamsArg(ExplorerParams(selected_cusip))
    /\ result' = ExecuteBond(ExplorerJoin, bond_sql,
                             ParamsArg(ExplorerParams(selected_cusip)))
    /\ UNCHANGED <<db, passVars, cacheVars, rankVars, tableVars>>

\* The script runs again (any widget interaction): the locals of the last
\* run are gone, the database stays.
Rerun ==
  /\ view # "none"
  /\ view' = "none" /\ sel' = [kind |-> "none"] /\ sql' = <<>>
  /\ params' = [given |-> FALSE] /\ result' = {}
  /\ UNCHANGED <<db, passVars, cacheVars, rankVars, tableVars>>

NextQuery == MarketQuery \/ RiskQuery \/ ExplorerQuery \/ Rerun

SpecQuery == InitQuery /\ [][NextQuery]_vars

-----------------------------------------------------------------------------
(* Claims about the query layer (SpecQuery) *)

\* The filter dimensions of a view, and the dimensions with a selection.
DimsOf(v) ==
  IF v = "market" THEN {"states", "types", "purposes"}
  ELSE IF v = "risk" THEN {"states", "agencies", "outlooks"}
  ELSE {}

ActiveDims == {d \in DimsOf(view) : sel[d] # {}}

\* The predicate the claims expect for a dimension, and the column it reads.
DimPredicate(d) ==
  CASE d = "states" -> "i.state = ANY(:states)"
    [] d = "types" -> "b.type = ANY(:types)"
    [] d = "purposes" -> "bp.category = ANY(:purposes)"
    [] d = "agencies" -> "cr.agency = ANY(:agencies)"
    [] d = "outlooks" -> "cr.outlook = ANY(:outlooks)"

DimColumn(d) ==
  CASE d = "states" -> "state"
    [] d = "types" -> "type"
    [] d = "purposes" -> "purpose"
    [] d = "agencies" -> "agency"
    [] d = "outlooks" -> "outlook"

Count(text, tok) == Cardinality({k \in DOMAIN text : text[k] = tok})

\* C1: in Market Overview and Ratings & Risk the text has a WHERE clause iff
\* some dimension has a selection; the clause is the AND-conjunction of one
\* "= ANY(:param)" predicate per selected dimension and none for an empty
\* one; the parameters are one key per selected dimension, bound to its
\* selected values, and no parameters at all when nothing is selected.
C1_WhereClausePerDimension ==
  view \in {"market", "risk"} =>
    LET n == Cardinality(ActiveDims)
        first == Len(sql) - (IF n = 0 THEN 0 ELSE 2 * n)
    IN  /\ Count(sql, "WHERE") = (IF n = 0 THEN 0 ELSE 1)
        /\ \A d \in DimsOf(view) :
             Count(sql, DimPredicate(d)) = (IF d \in ActiveDims THEN 1 ELSE 0)
        /\ Cardinality({k \in DOMAIN sql : sql[k] \in AnyPredicates}) = n
        /\ n > 0 =>
             /\ sql[first] = "WHERE"
             /\ \A j \in 1..n : sql[first + 2 * j - 1] \in AnyPredicates
             /\ \A j \in 1..(n - 1) : sql[first + 2 * j] = "AND"
        /\ Count(sql, "AND") = (IF n = 0 THEN 0 ELSE n - 1)
        /\ params.given = (n > 0)
        /\ n > 0 =>
             /\ Cardinality(DOMAIN params.binds) = n
             /\ DOMAIN params.binds = ActiveDims
             /\ \A d \in ActiveDims : params.binds[d] = sel[d]

C1_Witness ==
  /\ view = "risk"
  /\ sel.states # {} /\ sel.agencies = {} /\ sel.outlooks = {"stable", "negative"}
  /\ Count(sql, "AND") = 1
  /\ DOMAIN params.binds = {"states", "outlooks"}

\* The text of a view for a set of selected dimensions, whatever the values.
CanonPredicates(v, active) ==
  LET order == IF v = "market" THEN <<"states", "types", "purposes">>
               ELSE <<"states", "agencies", "outlooks">>
      pick(d) == IF d \in active THEN <<DimPredicate(d)>> ELSE <<>>
  IN  pick(order[1]) \o pick(order[2]) \o pick(order[3])

CanonText(v, active) ==
  LET preds == CanonPredicates(v, active)
      clause == CASE Len(preds) = 0 -> <<>>
                  [] Len(preds) = 1 -> <<"WHERE", preds[1]>>
                  [] Len(preds) = 2 -> <<"WHERE", preds[1], "AND", preds[2]>>
                  [] Len(preds) = 3 ->
                       <<"WHERE", preds[1], "AND", preds[2], "AND", preds[3]>>
  IN  CASE v = "market" -> MarketSelect \o clause \o <<"ORDER BY maturity_date;">>
        [] v = "risk" -> RiskSelect \o clause \o <<"ORDER BY cr.date DESC;">>
        [] v = "explorer" -> bond_sql

\* The values the user supplied to the view.
SelectedValues == UNION {sel[d] : d \in DimsOf(view)}

\* C2: the query text depends on the view and on which dimensions have a
\* selection only, never on the selected values (nor on the selected cusip),
\* and no selected value is part of the text: the values are in the bound
\* parameters alone.
C2_TextIndependentOfValues ==
  view # "none" =>
    /\ sql = CanonText(view, ActiveDims)
    /\ \A k \in DOMAIN sql : sql[k] \notin SelectedValues
    /\ \A d \in ActiveDims : params.binds[d] = sel[d]
    /\ view = "explorer" => params.binds["cusip"] = Strip(sel.cusip)

C2_Witness ==
  /\ view = "market"
  /\ "NY' OR '1'='1" \in sel.states
  /\ "water; DROP TABLE bonds;--" \in sel.purposes
  /\ "NY' OR '1'='1" \in params.binds["states"]
  /\ sql = CanonText("market", {"states", "purposes"})

\* The joined rows of the view rendered last.
JoinedRows == IF view = "market" THEN MarketJoin ELSE RiskJoin

\* C3: the filtered result is exactly the joined rows whose column is a
\* member of the selection for every selected dimension; an empty selection
\* excludes nothing, and a row whose filtered column is NULL is dropped.
C3_ConjunctiveFilter ==
  view \in {"market", "risk"} =>
    result = { r \in JoinedRows : \A d \in ActiveDims :
                 r[DimColumn(d)] # None /\ r[DimColumn(d)] \in sel[d] }

C3_Witness ==
  /\ view = "market"
  /\ sel.states = {"CA"} /\ sel.types = {} /\ sel.purposes = {"edu"}
  /\ \E b \in Bonds : db[b].state = None /\ db[b].purpose = "edu"
  /\ \E r \in result : r.state = "CA"
  /\ \A r \in result : r.state # None
  /\ Cardinality(result) < NumBonds

\* C4: a bond whose issuer or purpose is absent is still in the result of
\* every view, the dependent fields NULL, unless a filter with a selection
\* targets a column of the absent association (or another filter excludes
\* the bond by a column it has).
C4_AbsentAssociationKept ==
  /\ view = "market" =>
       \A b \in Bonds :
         ( /\ db[b].state = None \/ db[b].purpose = None
           /\ db[b].state = None => sel.states = {}
           /\ db[b].purpose = None => sel.purposes = {}
           /\ sel.states # {} => db[b].state \in sel.states
           /\ sel.purposes # {} => db[b].purpose \in sel.purposes
           /\ sel.types # {} => db[b].type \in sel.types )
         => \E r \in result :
              /\ r.cusip = CusipOf(b)
              /\ r.state = db[b].state /\ r.purpose = db[b].purpose
  /\ view = "risk" =>
       \A b \in Bonds :
         ( /\ db[b].agency # None
           /\ db[b].state = None
           /\ sel.states = {}
           /\ sel.agencies # {} => db[b].agency \in sel.agencies
           /\ sel.outlooks # {} => OutlookOf(db[b].agency) \in sel.outlooks )
         => \E r \in result : r.cusip = CusipOf(b) /\ r.state = None
  /\ view = "explorer" =>
       \A b \in Bonds :
         ( /\ CusipOf(b) = sel.cusip
           /\ db[b].state = None \/ db[b].purpose = None )
         => \E r \in result :
              /\ r.cusip = CusipOf(b)
              /\ r.issuer_state = db[b].state
              /\ r.purpose_category = db[b].purpose

-----------------------------------------------------------------------------
(* SpecPass: one run of the script *)

\* The conn.query calls of a run, in the order the script reaches them:
\* render_bond_explorer, render_ratings_risk, render_market_overview.
Sites ==
  <<"explorer_cusips", "explorer_bond", "explorer_trades",
    "risk_states", "risk_agencies", "risk_outlooks", "risk_main",
    "market_states", "market_types", "market_purposes", "market_main">>

SiteSet == {Sites[k] : k \in DOMAIN Sites}

Views == {"explorer", "risk", "market"}

ViewOf(site) ==
  IF site \in {"explorer_cusips", "explorer_bond", "explorer_trades"}
  THEN "explorer"
  ELSE IF site \in {"risk_states", "risk_agencies", "risk_outlooks", "risk_main"}
  THEN "risk"
  ELSE "market"

\* What a conn.query call does: it returns rows, returns an empty table, or
\* raises (the data store is unreachable, the query is malformed).
Outcomes == {"rows", "empty", "error"}

InitPass ==
  /\ pc = "explorer_cusips"
  /\ outcome = [q \in SiteSet |-> "pending"]
  /\ shown = [v \in Views |-> {}]
  \* the other machines stand still
  /\ db = [b \in Bonds |-> [type |-> "GO", state |-> None, purpose |-> None,
                             agency |-> None]]
  /\ view = "none" /\ sel = [kind |-> "none"] /\ sql = <<>>
  /\ params = [given |-> FALSE] /\ result = {}
  /\ cache = <<>> /\ now = 0 /\ last = <<>>
  /\ grades = <<>> /\ ranks = <<>>
  /\ df = <<>> /\ recent_updates = <<>> /\ risky = <<>>

\* No function of the script catches an exception: one raised by conn.query
\* leaves the render function and the with block, and ends the run.
Raise == "aborted"

\* The statement after a conn.query call that did `o`, `next` being where
\* the code goes on with a table.
After(o, next) == IF o = "error" THEN Raise ELSE next

Show(v, elements) == [shown EXCEPT ![v] = @ \cup elements]

\* render_bond_explorer up to the selectbox: an empty option list selects
\* None, and the function returns.
ExplorerCusips ==
  /\ pc = "explorer_cusips"
  /\ \E o \in Outcomes :
       /\ outcome' = [outcome EXCEPT !["explorer_cusips"] = o]
       /\ shown' = Show("explorer", {"header"} \cup
                        (IF o = "rows" THEN {"selectbox"} ELSE {}))
       /\ pc' = After(o, IF o = "empty" THEN "risk_states" ELSE "explorer_bond")
  /\ UNCHANGED <<queryVars, cacheVars, rankVars, tableVars>>

\* What render_bond_explorer shows of bond_df.
BondOutput(o) ==
  IF o = "empty" THEN {"warning"} ELSE IF o = "rows" THEN {"summary"} ELSE {}

ExplorerBond ==
  /\ pc = "explorer_bond"
  /\ \E o \in Outcomes :
       /\ outcome' = [outcome EXCEPT !["explorer_bond"] = o]
       /\ shown' = Show("explorer", BondOutput(o))
       /\ pc' = After(o, IF o = "empty" THEN "risk_states" ELSE "explorer_trades")
  /\ UNCHANGED <<queryVars, cacheVars, rankVars, tableVars>>

\* What render_bond_explorer shows of trades.
TradesOutput(o) ==
  IF o = "empty" THEN {"trades_warning"}
  ELSE IF o = "rows" THEN {"trade_charts", "trade_metrics"} ELSE {}

ExplorerTrades ==
  /\ pc = "explorer_trades"
  /\ \E o \in Outcomes :
       /\ outcome' = [outcome EXCEPT !["explorer_trades"] = o]
       /\ shown' = Show("explorer", TradesOutput(o))
       /\ pc' = After(o, "risk_states")
  /\ UNCHANGED <<queryVars, cacheVars, rankVars, tableVars>>

\* The filter value lists of render_ratings_risk, one conn.query each; an
\* empty list is a multiselect without options.
RiskFilterLists ==
  /\ pc \in {"risk_states", "risk_agencies", "risk_outlooks"}
  /\ \E o \in Outcomes :
       /\ outcome' = [outcome EXCEPT ![pc] = o]
       /\ shown' = Show("risk", {"header"})
       /\ pc' = After(o, CASE pc = "risk_states" -> "risk_agencies"
                            [] pc = "risk_agencies" -> "risk_outlooks"
                            [] pc = "risk_outlooks" -> "risk_main")
  /\ UNCHANGED <<queryVars, cacheVars, rankVars, tableVars>>

\* What render_ratings_risk shows of df.
RiskOutput(o) ==
  IF o = "empty" THEN {"filters", "warning"}
  ELSE IF o = "rows" THEN {"filters", "metrics", "charts", "tables"}
  ELSE {"filters"}

RiskMain ==
  /\ pc = "risk_main"
  /\ \E o \in Outcomes :
       /\ outcome' = [outcome EXCEPT !["risk_main"] = o]
       /\ shown' = Show("risk", RiskOutput(o))
       /\ pc' = After(o, "market_states")
  /\ UNCHANGED <<queryVars, cacheVars, rankVars, tableVars>>

\* The filter value lists of render_market_overview.
MarketFilterLists ==
  /\ pc \in {"market_states", "market_types", "market_purposes"}
  /\ \E o \in Outcomes :
       /\ outcome' = [outcome EXCEPT ![pc] = o]
       /\ shown' = Show("market", {"header"})
       /\ pc' = After(o, CASE pc = "market_states" -> "market_types"
                            [] pc = "market_types" -> "market_purposes"
                            [] pc = "market_purposes" -> "market_main")
  /\ UNCHANGED <<queryVars, cacheVars, rankVars, tableVars>>

\* Mutant of MarketOutput: the return after the warning forgotten, so that
\* the derived fields, the means and the charts are computed over no rows.
MarketOutputNoReturn(o) ==
  IF o = "empty" THEN {"filters", "warning", "derived", "metrics", "charts"}
  ELSE IF o = "rows" THEN {"filters", "derived", "metrics", "charts"}
  ELSE {"filters"}

\* What render_market_overview shows of df.
MarketOutput(o) ==
  IF o = "empty" THEN {"filters", "warning"}
  ELSE IF o = "rows" THEN {"filters", "derived", "metrics", "charts"}
  ELSE {"filters"}

MarketMain ==
  /\ pc = "market_main"
  /\ \E o \in Outcomes :
       /\ outcome' = [outcome EXCEPT !["market_main"] = o]
       /\ shown' = Show("market", MarketOutput(o))
       /\ pc' = After(o, "done")
  /\ UNCHANGED <<queryVars, cacheVars, rankVars, tableVars>>

\* The script is run again from its first line.
PassRerun ==
  /\ pc \in {"done", "aborted"}
  /\ pc' = "explorer_cusips"
  /\ outcome' = [q \in SiteSet |-> "pending"]
  /\ shown' = [v \in Views |-> {}]
  /\ UNCHANGED <<queryVars, cacheVars, rankVars, tableVars>>

NextPass ==
  \/ ExplorerCusips \/ ExplorerBond \/ ExplorerTrades
  \/ RiskFilterLists \/ RiskMain
  \/ MarketFilterLists \/ MarketMain
  \/ PassRerun

SpecPass == InitPass /\ [][NextPass]_vars

-----------------------------------------------------------------------------
(* Claims about a run of the script (SpecPass) *)

RunEnded == pc \in {"done", "aborted"}

Failed(v) == \E q \in SiteSet : ViewOf(q) = v /\ outcome[q] = "error"

Rendered(v) == "header" \in shown[v]

\* C6: when a query of one view fails, the other views are still rendered
\* in the same run.
C6_FailureKeepsOtherViews ==
  RunEnded => \A v \in Views : Failed(v) =>
                \A w \in Views \ {v} : Rendered(w)

\* The main query of a view, and the output computed from its table.
MainQuery(v) ==
  CASE v = "explorer" -> "explorer_bond"
    [] v = "risk" -> "risk_main"
    [] v = "market" -> "market_main"

Computed ==
  {"summary", "derived", "metrics", "charts", "tables", "trade_charts",
   "trade_metrics"}

\* C9: a view whose main query returns no rows ends with its "no data"
\* message and nothing computed from the empty table (no derived field, no
\* metric, no chart, no table); the run is not aborted by it, and the views
\* after it are rendered.
C9_EmptyResultIsNoData ==
  /\ \A v \in Views : outcome[MainQuery(v)] = "empty" =>
        /\ "warning" \in shown[v]
        /\ shown[v] \cap Computed = {}
  /\ outcome["explorer_trades"] = "empty" =>
        /\ "trades_warning" \in shown["explorer"]
        /\ shown["explorer"] \cap {"trade_charts", "trade_metrics"} = {}
  /\ pc = "aborted" => \E v \in Views : Failed(v)
  /\ (RunEnded /\ \A v \in Views : ~Failed(v)) =>
        \A v \in Views : Rendered(v)

C9_Witness ==
  /\ pc = "done"
  /\ outcome["explorer_bond"] = "empty"
  /\ outcome["risk_main"] = "empty"
  /\ outcome["market_main"] = "empty"
  /\ \A v \in Views : "warning" \in shown[v]

-----------------------------------------------------------------------------
(* SpecCache: the result cache behind conn.query(text, params, ttl) *)

\* Mutant of TtlArg: the main queries given the ttl of the value lists.
TtlArgCopied(site) ==
  CASE site \in {"risk_states", "risk_agencies", "risk_outlooks",
                 "market_states", "market_types", "market_purposes",
                 "risk_main", "market_main"} -> "10m"
    [] site \in {"explorer_cusips", "explorer_bond", "explorer_trades"} -> "5m"

\* The ttl argument of each conn.query call.
TtlArg(site) ==
  CASE site \in {"risk_states", "risk_agencies", "risk_outlooks",
                 "market_states", "market_types", "market_purposes"} -> "10m"
    [] site \in {"risk_main", "market_main"} -> "2m"
    [] site \in {"explorer_cusips", "explorer_bond", "explorer_trades"} -> "5m"

\* The text of the queries without parameters; a main query is keyed by its
\* view here, its text and parameters being those of one fixed selection.
TextOf(site) ==
  CASE site \in {"risk_states", "market_states"} ->
         "SELECT DISTINCT state FROM issuers ORDER BY state;"
    [] site = "market_types" -> "SELECT DISTINCT type FROM bonds ORDER BY type;"
    [] site = "market_purposes" ->
         "SELECT DISTINCT category FROM bonds_purposes ORDER BY category;"
    [] site = "risk_agencies" ->
         "SELECT DISTINCT agency FROM credit_ratings ORDER BY agency;"
    [] site = "risk_outlooks" ->
         "SELECT DISTINCT outlook FROM credit_ratings ORDER BY outlook;"
    [] site = "explorer_cusips" -> "SELECT cusip FROM bonds ORDER BY cusip;"
    [] OTHER -> site

\* A time span such as "10m", in minutes.
Minutes(ttl) ==
  CASE ttl = "10m" -> 10
    [] ttl = "5m" -> 5
    [] ttl = "2m" -> 2

\* The call sites SpecCache looks up: two that share a text, a main query
\* and a Bond Explorer query.
CacheSites == {"risk_states", "market_states", "market_main", "explorer_cusips"}

CacheKeys == {TextOf(site) : site \in CacheSites}

Absent == -1

InitCache ==
  /\ cache = [k \in CacheKeys |-> Absent]
  /\ now = 0
  /\ last = [site |-> "none"]
  \* the other machines stand still
  /\ db = [b \in Bonds |-> [type |-> "GO", state |-> None, purpose |-> None,
                             agency |-> None]]
  /\ view = "none" /\ sel = [kind |-> "none"] /\ sql = <<>>
  /\ params = [given |-> FALSE] /\ result = {}
  /\ pc = "idle" /\ outcome = <<>> /\ shown = <<>>
  /\ grades = <<>> /\ ranks = <<>>
  /\ df = <<>> /\ recent_updates = <<>> /\ risky = <<>>

\* An entry is a hit while now - fetch_timestamp < ttl.
Fresh(key, ttl) == cache[key] # Absent /\ now - cache[key] < ttl

\* conn.query at a call site: a hit returns the cached table; a miss runs
\* the query through the collaborator once and overwrites the entry.
Lookup ==
  \E site \in CacheSites :
    LET key == TextOf(site)
        ttl == Minutes(TtlArg(site))
    IN  /\ IF Fresh(key, ttl)
           THEN /\ cache' = cache
                /\ last' = [site |-> site, at |-> now, was |-> "fresh",
                            calls |-> 0, fetched |-> cache[key]]
           ELSE /\ cache' = [cache EXCEPT ![key] = now]
                /\ last' = [site |-> site, at |-> now,
                            was |-> IF cache[key] = Absent THEN "absent"
                                    ELSE "expired",
                            calls |-> 1, fetched |-> now]
        /\ UNCHANGED <<now, queryVars, passVars, rankVars, tableVars>>

\* The clock advances by a minute.
Tick ==
  /\ now < MaxClock
  /\ now' = now + 1
  /\ UNCHANGED <<cache, last, queryVars, passVars, rankVars, tableVars>>

NextCache == Lookup \/ Tick

SpecCache == InitCache /\ [][NextCache]_vars

-----------------------------------------------------------------------------
(* Claims about the cache (SpecCache) *)

\* The TTL the claim gives each class of query, in minutes.
ClaimedTtl(site) ==
  IF site \in {"risk_main", "market_main"} THEN 2
  ELSE IF site \in {"explorer_cusips", "explorer_bond", "explorer_trades"} THEN 5
  ELSE 10

\* C5: a lookup whose entry was fetched less than its TTL ago (10 minutes
\* for the value lists, 2 for the filter-dependent queries, 5 for the Bond
\* Explorer queries) returns the cached table without a call of the
\* collaborator; a lookup whose entry is absent or expired calls it once and
\* overwrites the entry; no returned table is as old as its TTL.
C5_CacheWithinTtl ==
  [][ last' # last =>
        LET site == last'.site
            key == TextOf(site)
            valid == cache[key] # Absent /\ now - cache[key] < ClaimedTtl(site)
        IN  /\ valid => /\ last'.calls = 0
                         /\ last'.fetched = cache[key]
                         /\ cache' = cache
            /\ ~valid => /\ last'.calls = 1
                          /\ last'.fetched = now
                          /\ cache' = [cache EXCEPT ![key] = now]
            /\ last'.at - last'.fetched < ClaimedTtl(site) ]_vars

C5_Witness ==
  /\ last.site = "market_main"
  /\ last.was = "expired"
  /\ last.calls = 1
  /\ cache[TextOf("market_states")] # Absent
  /\ now - cache[TextOf("market_states")] >= 2
  /\ now - cache[TextOf("market_states")] < 10

-----------------------------------------------------------------------------
(* SpecRank: the rank of a rating grade *)

RATING_ORDER ==
  <<"AAA", "AA+", "AA", "AA-", "A+", "A", "A-",
    "BBB+", "BBB", "BBB-", "BB+", "BB", "BB-",
    "B+", "B", "B-", "CCC+", "CCC", "CCC-", "CC",
    "C", "D">>

\* The rank of a grade that is not in RATING_ORDER.
Sentinel == 999

\* x in list
In(x, list) == \E i \in DOMAIN list : list[i] = x

\* list.index(x): the position of the first x, counted from 0.
Index(list, x) ==
  (CHOOSE i \in DOMAIN list :
     list[i] = x /\ \A j \in 1..(i - 1) : list[j] # x) - 1

\* Mutant of rating_sort: the position looked up as str.find does, -1 for a
\* grade that is not found.
rating_sort_find(r) == IF In(r, RATING_ORDER) THEN Index(RATING_ORDER, r) ELSE -1

\* lambda r: RATING_ORDER.index(r) if r in RATING_ORDER else 999
rating_sort(r) == IF In(r, RATING_ORDER) THEN Index(RATING_ORDER, r) ELSE Sentinel

\* The grades observed: the scale, and strings that are not on it (another
\* agency's notation, a lower-case grade, an empty string, a missing value).
Grades ==
  {RATING_ORDER[i] : i \in DOMAIN RATING_ORDER}
    \cup {"ZZZ", "Aa1", "NR", "aaa", "", None}

InitRank ==
  /\ grades = <<>> /\ ranks = <<>>
  \* the other machines stand still
  /\ db = [b \in Bonds |-> [type |-> "GO", state |-> None, purpose |-> None,
                             agency |-> None]]
  /\ view = "none" /\ sel = [kind |-> "none"] /\ sql = <<>>
  /\ params = [given |-> FALSE] /\ result = {}
  /\ pc = "idle" /\ outcome = <<>> /\ shown = <<>>
  /\ cache = <<>> /\ now = 0 /\ last = <<>>
  /\ df = <<>> /\ recent_updates = <<>> /\ risky = <<>>

\* df["rating"].apply(...) over two rows.
RankPair ==
  \E a \in Grades, b \in Grades :
    /\ grades' = <<a, b>>
    /\ ranks' = <<rating_sort(a), rating_sort(b)>>
    /\ UNCHANGED <<queryVars, passVars, cacheVars, tableVars>>

NextRank == RankPair

SpecRank == InitRank /\ [][NextRank]_vars

\* a is a better grade than b on the scale.
Better(a, b) ==
  \E i \in DOMAIN RATING_ORDER, j \in DOMAIN RATING_ORDER :
    i < j /\ RATING_ORDER[i] = a /\ RATING_ORDER[j] = b

Known(a) == \E i \in DOMAIN RATING_ORDER : RATING_ORDER[i] = a

\* C7: every grade, known or not, has a rank (a natural number, so any two
\* ranks compare); known grades rank strictly by their position on the scale
\* from AAA to D; unknown grades all have one rank, greater than the rank of
\* every known grade: rank("AAA") < rank("BBB") < rank(unknown).
C7_RatingRankTotalOrder ==
  grades # <<>> =>
    LET a == grades[1]
        b == grades[2]
    IN  /\ ranks[1] \in Nat /\ ranks[2] \in Nat
        /\ (Known(a) /\ Known(b)) =>
             /\ Better(a, b) <=> ranks[1] < ranks[2]
             /\ a = b <=> ranks[1] = ranks[2]
        /\ (~Known(a) /\ ~Known(b)) => ranks[1] = ranks[2]
        /\ (Known(a) /\ ~Known(b)) => ranks[1] < ranks[2]
        /\ (a = "AAA" /\ b = "BBB") => ranks[1] < ranks[2]
        /\ (a = "AAA") => ranks[1] = 0
        /\ (a = "D") => ranks[1] = 21

C7_Witness ==
  /\ grades = <<"D", "ZZZ">>
  /\ ranks[1] = 21
  /\ ranks[2] > 21

-----------------------------------------------------------------------------
(* SpecTable: the two tables of Ratings & Risk *)

\* The rating tables the main query returns: rows in the order of
\* ORDER BY cr.date DESC, each with its position in df as index.
TableRows ==
  [cusip : {"A", "B"}, rating : {"AAA", "BBB", "ZZZ"}, rating_date : {1, 2}]

Tables ==
  UNION { { t \in [1..n -> TableRows] :
              \A i \in 1..n, j \in 1..n :
                i < j => t[i].rating_date >= t[j].rating_date } :
          n \in 1..MaxRows }

\* The permutations of 1..n.
Perms(n) ==
  { f \in [1..n -> 1..n] : \A i \in 1..n, j \in 1..n : i # j => f[i] # f[j] }

\* The positions of a table, each with the row's index label.
Indexed(t) == [i \in DOMAIN t |-> [idx |-> i, row |-> t[i]]]

\* sort_values(by, ascending=False), kind left at its default "quicksort",
\* which is not a stable sort: rows with equal keys come out in whatever
\* order the sorting routine of the build leaves them in. The set of the
\* tables the call can return.
SortValuesDesc(t, by) ==
  { [i \in DOMAIN t |-> t[f[i]]] :
      f \in { g \in Perms(Len(t)) :
                \A i \in DOMAIN t, j \in DOMAIN t :
                  i < j => t[g[i]].row[by] >= t[g[j]].row[by] } }

\* head(n): the first n rows.
HeadRows(t, n) == SubSeq(t, 1, IF Len(t) < n THEN Len(t) ELSE n)

\* groupby("cusip").head(1): the first row of every cusip, in the order of
\* the table.
GroupHead(t) ==
  LET keep == {i \in DOMAIN t :
                 \A j \in 1..(i - 1) : t[j].row.cusip # t[i].row.cusip}
      F[i \in 0..Len(t)] ==
        IF i = 0 THEN <<>>
        ELSE IF i \in keep THEN Append(F[i - 1], t[i]) ELSE F[i - 1]
  IN  F[Len(t)]

\* df["rating_sort"] = df["rating"].apply(...): the table with the column
\* added.
WithRatingSort(t) ==
  [i \in DOMAIN t |->
     [idx |-> t[i].idx,
      row |-> [cusip |-> t[i].row.cusip, rating |-> t[i].row.rating,
               rating_date |-> t[i].row.rating_date,
               rating_sort |-> rating_sort(t[i].row.rating)]]]

\* head(10) of "Latest Rating Updates" and of "Highest-Risk Bonds".
LatestN == 10

TopN == 10

InitTable ==
  /\ df = <<>> /\ recent_updates = <<>> /\ risky = <<>>
  \* the other machines stand still
  /\ db = [b \in Bonds |-> [type |-> "GO", state |-> None, purpose |-> None,
                             agency |-> None]]
  /\ view = "none" /\ sel = [kind |-> "none"] /\ sql = <<>>
  /\ params = [given |-> FALSE] /\ result = {}
  /\ pc = "idle" /\ outcome = <<>> /\ shown = <<>>
  /\ cache = <<>> /\ now = 0 /\ last = <<>>
  /\ grades = <<>> /\ ranks = <<>>

\* The main query of render_ratings_risk returns a table.
LoadDf ==
  /\ df = <<>>
  /\ df' \in Tables
  /\ UNCHANGED <<recent_updates, risky, queryVars, passVars, cacheVars, rankVars>>

\* render_ratings_risk from "Latest Rating Updates" to its end.
RenderTables ==
  /\ df # <<>>
  /\ recent_updates = <<>>
  /\ \E s1 \in SortValuesDesc(Indexed(df), "rating_date") :
       \E s2 \in SortValuesDesc(HeadRows(GroupHead(s1), LatestN), "rating_date") :
         recent_updates' = s2
  /\ \E s \in SortValuesDesc(WithRatingSort(Indexed(df)), "rating_sort") :
       risky' = HeadRows(s, TopN)
  /\ UNCHANGED <<df, queryVars, passVars, cacheVars, rankVars>>

\* The script is run again: the tables of the last run are gone.
TableRerun ==
  /\ df # <<>>
  /\ df' = <<>> /\ recent_updates' = <<>> /\ risky' = <<>>
  /\ UNCHANGED <<queryVars, passVars, cacheVars, rankVars>>

NextTable == LoadDf \/ RenderTables \/ TableRerun

SpecTable == InitTable /\ [][NextTable]_vars

-----------------------------------------------------------------------------
(* Claims about the tables (SpecTable) *)

\* The stable descending sort of a table: equal keys in the order of the
\* table.
StableDesc(t, by) ==
  LET f == CHOOSE g \in Perms(Len(t)) :
             \A i \in DOMAIN t, j \in DOMAIN t :
               i < j => \/ t[g[i]].row[by] > t[g[j]].row[by]
                        \/ /\ t[g[i]].row[by] = t[g[j]].row[by]
                           /\ g[i] < g[j]
  IN  [i \in DOMAIN t |-> t[f[i]]]

\* C8: "Highest-Risk Bonds" is the stable sort of df by rating rank,
\* descending, cut to the first 10 rows: rows of equal rank keep the order
\* they have in df, whence the first-encountered rows of a tie are the ones
\* kept at the cut, and every run over one df gives one table.
C8_TopNStable ==
  risky # <<>> =>
    risky = HeadRows(StableDesc(WithRatingSort(Indexed(df)), "rating_sort"), TopN)

CusipsOf(t) == {t[i].cusip : i \in DOMAIN t}

LatestDate(c) ==
  CHOOSE d \in {df[i].rating_date : i \in {k \in DOMAIN df : df[k].cusip = c}} :
    \A i \in DOMAIN df : df[i].cusip = c => df[i].rating_date <= d

\* C10: "Latest Rating Updates" has at most one row per cusip; each of its
\* rows is a row of df with the greatest rating_date of its cusip, the first
\* such row in the order of df; cut to 10, the cusips kept are those with
\* the newest latest ratings.
C10_LatestPerKey ==
  recent_updates # <<>> =>
    /\ \A i \in DOMAIN recent_updates, j \in DOMAIN recent_updates :
         i # j => recent_updates[i].row.cusip # recent_updates[j].row.cusip
    /\ \A i \in DOMAIN recent_updates :
         LET r == recent_updates[i]
         IN  /\ r.idx \in DOMAIN df /\ df[r.idx] = r.row
             /\ r.row.rating_date = LatestDate(r.row.cusip)
             /\ \A k \in 1..(r.idx - 1) :
                  ~(df[k].cusip = r.row.cusip
                    /\ df[k].rating_date = r.row.rating_date)
    /\ Len(recent_updates) <= LatestN
    /\ Cardinality(CusipsOf(df)) <= LatestN =>
         {recent_updates[i].row.cusip : i \in DOMAIN recent_updates} = CusipsOf(df)
    /\ \A c \in CusipsOf(df) :
         (\A i \in DOMAIN recent_updates : recent_updates[i].row.cusip # c) =>
           \A i \in DOMAIN recent_updates :
             recent_updates[i].row.rating_date >= LatestDate(c)

====
